---- MODULE Spec2Model ----
(***************************************************************************)
(* Email Loop Agent: the in-memory task queue (task-queue.ts), the API     *)
(* client (api-client.ts), the executor and main loop (index.ts) and the   *)
(* update checker (update-checker.ts).                                     *)
(***************************************************************************)
EXTENDS Integers, Sequences, FiniteSets, TLC

(***************************************************************************)
(* Bounds of the model.                                                    *)
(***************************************************************************)
MaxQueueId == 2
MaxBatch == 3
MaxQueue == 3
MaxOps == 4

(***************************************************************************)
(* Tasks (types.ts Task): the queueId and whether the pre-generated        *)
(* subject and body are both non-empty.                                    *)
(***************************************************************************)
Task == [queueId : 1..MaxQueueId, content : BOOLEAN]

NoTask == [queueId |-> 0, content |-> FALSE]

\* nothing enqueued, nothing shifted
NoFifo == [in |-> << >>, out |-> << >>, last |-> "none"]

\* nothing located
NoLoc == [index |-> -1, task |-> NoTask, removed |-> NoTask, done |-> FALSE]

SeqsUpTo(S, n) == UNION {[1..k -> S] : k \in 0..n}

VARIABLES
    currentQueue,   \* task-queue.ts: let currentQueue: Task[]
    enqueued,       \* history: number of tasks given to addTasks
    removed,        \* history: number of removals that removed a task
    shifted,        \* the value returned by the last shiftTask (NoTask: undefined)
    loc,            \* a caller's located task: its index, the task, what its removal removed
    fifo,           \* history: the tasks given to addTasks, the tasks shiftTask returned, the last call
    ops             \* history: number of queue operations called

qvars == <<currentQueue, enqueued, removed, shifted, ops, loc, fifo>>

VARIABLES
    agentToken,     \* config.ts: let agentToken: string | null
    rpc,            \* report(): "idle", "fetch" (awaiting fetch), "sleep", "done"
    attempt,        \* report(): the loop variable attempt
    rTok,           \* report(): const agentToken = getAgentToken()
    rResults,       \* report(): the argument results
    rRet,           \* report(): the value of its last return ("none": running, or dropped)
    rSent,          \* history: the [token, results] of each fetch of this call
    rDelays,        \* history: the delays slept by this call, in ms
    rFailures,      \* history: the failed attempts of this call
    rLast,          \* history: the response the last fetch got ("none": none yet)
    hpc,            \* sendHealthCheck(): "idle", "fetch"
    hRet,           \* sendHealthCheck(): the last returned value ("none": none yet)
    hLast           \* history: the response the last health fetch got ("none": none yet)

rvars == <<rpc, attempt, rTok, rResults, rRet, rSent, rDelays, rFailures, rLast>>
rvarsButRet == <<rpc, attempt, rTok, rResults, rSent, rDelays, rFailures, rLast>>
hvars == <<hpc, hRet, hLast>>

VARIABLES
    pc,             \* main(): the await it is suspended at
    tasks,          \* main(): const tasks = await poll()
    idx,            \* main(): the position of the for loop in tasks (1-based)
    results,        \* main(): const results: TaskResult[]
    mode,           \* "batch": a polled batch; "drain": one task taken by a drain step
    isPolling,      \* the accept-new-work flag that stopPolling() clears
    shuttingDown,   \* the flag a termination signal sets
    isProcessing,   \* the in-flight flag of an iteration
    exited,         \* "no", or how the process ended: "shutdown", "update"
    batchReports,   \* history: report() calls made for the current tasks
    reported,       \* history: the results passed to the last of them
    faults,         \* history: sendEmail calls of the current tasks that hit a fault
    sends,          \* history: sendEmail calls of the current tasks that reached sendMail
    polledUnregistered, \* history: poll() was called without a token
    apiLast,        \* history: the last call of the API client: the response, what it returned
    snap,           \* history: the queue when the termination signal came
    snapInFlight,   \* history: the queue when the signal came during a send
    drainLog        \* history: the queueIds of each report() of a drain step

mvars == <<pc, tasks, idx, results, mode, isProcessing, batchReports, reported,
           faults, sends, polledUnregistered, apiLast, drainLog>>
fvars == <<isPolling, shuttingDown, exited, snap, snapInFlight>>

VARIABLES
    upc,            \* UpdateChecker: "idle", "gitCheck", "waitSleep", "script"
    isChecking,     \* UpdateChecker: private isChecking
    queueSize,      \* performUpdate(): let queueSize
    waitCount,      \* performUpdate(): let waitCount
    skippedChecks,  \* history: a checkForUpdates call returned at the isChecking guard
    waitAborted     \* history: the last check ended in the abort after the wait loop

uvars == <<upc, isChecking, queueSize, waitCount, skippedChecks, waitAborted>>

VARIABLES
    config,         \* config.ts: let config: AgentConfig
    cfgPrev,        \* history: config before the last updateConfig call made alone
    cfgPartial      \* history: the argument of that call

cvars == <<config, cfgPrev, cfgPartial>>

VARIABLES
    logToken,       \* LogUploader: this.agentToken is set
    logSize,        \* the size of the log file, in bytes
    savedOffset,    \* .upload-state.json: the offset stored for the log file
    runs,           \* the uploadLogs() runs: where each is, its currentOffset and contentLength
    okUploads       \* history: <<offset, length>> of every upload that returned success

lvars == <<logToken, logSize, savedOffset, runs, okUploads>>

vars == <<qvars, agentToken, rvars, hvars, lvars, mvars, fvars, uvars, cvars>>

\* what a step of the queue and a step of the API client leave alone
notQueue == <<agentToken, rvars, hvars, lvars, mvars, fvars, uvars, cvars>>
notReport == <<qvars, hvars, lvars, mvars, fvars, uvars, cvars>>
notHealth == <<qvars, lvars, rvars, mvars, fvars, uvars, cvars>>

(***************************************************************************)
(* task-queue.ts                                                           *)
(***************************************************************************)
getQueueSize(q) == Len(q)

\* a queue that puts new tasks in front (unshift instead of push)
addTasksFront(q, batch) == batch \o q

\* currentQueue.push(...tasks)
addTasks(q, batch) == q \o batch

\* Array.prototype.splice(index, 1) for 0 <= index < length
splice1(q, index) == SubSeq(q, 1, index) \o SubSeq(q, index + 2, Len(q))

\* a removal without the range guard: splice(-1, 1) removes the last element
removeTaskByIndexUnguarded(q, index) ==
    IF index < 0
    THEN (IF Len(q) + index >= 0 THEN splice1(q, Len(q) + index) ELSE q)
    ELSE (IF index < Len(q) THEN splice1(q, index) ELSE q)

\* a removal that leaves the queue as it is
removeTaskByIndexNoop(q, index) == q

\* a removal that takes its index as a position counted from 1
removeTaskByIndexOneBased(q, index) ==
    IF index >= 1 /\ index <= Len(q) THEN splice1(q, index - 1) ELSE q

removeTaskByIndex(q, index) ==
    IF index >= 0 /\ index < Len(q) THEN splice1(q, index) ELSE q

\* a queue that gives out its newest task (pop instead of shift)
popTask(q) ==
    IF Len(q) = 0
    THEN [task |-> NoTask, queue |-> q]
    ELSE [task |-> q[Len(q)], queue |-> SubSeq(q, 1, Len(q) - 1)]

\* a queue that returns its first task without removing it
peekTask(q) ==
    IF Len(q) = 0
    THEN [task |-> NoTask, queue |-> q]
    ELSE [task |-> Head(q), queue |-> q]

\* Array.prototype.shift(): the removed first element (undefined when empty)
\* and the remaining queue
shiftTask(q) ==
    IF Len(q) = 0
    THEN [task |-> NoTask, queue |-> q]
    ELSE [task |-> Head(q), queue |-> Tail(q)]

clearQueue(q) == << >>

(***************************************************************************)
(* config.ts: the agent token.  null before registration, '' after a 401.  *)
(***************************************************************************)
Null == "null"
Tokens == {"tokA", "tokB"}

\* data.token of a registration response: a token, or none
ServerTokens == {"tokA", ""}

\* !agentToken
Falsy(token) == token \in {Null, ""}

(***************************************************************************)
(* config.ts: the agent configuration.  A Partial<AgentConfig> is a        *)
(* function from the fields it has to their values; the JSON of the master *)
(* may carry a field that AgentConfig does not declare.                    *)
(***************************************************************************)
ConfigFields == {"pollInterval", "sendInterval", "batchSize"}

PartialFields == ConfigFields \cup {"healthCheckInterval"}

ConfigValues == {0, 5000}

\* export let config: AgentConfig = { ... }
DefaultConfig == [pollInterval |-> 60000, sendInterval |-> 2000, batchSize |-> 10]

\* no fields: {}, or a data.config that is absent
NoConfig == [f \in {} |-> 0]

Partials == UNION {[fs -> ConfigValues] : fs \in SUBSET PartialFields}

\* a merge in the other order, { ...newConfig, ...config }: the old value wins
updateConfigOldWins(c, newConfig) ==
    [f \in (DOMAIN c) \cup (DOMAIN newConfig) |->
        IF f \in DOMAIN c THEN c[f] ELSE newConfig[f]]

\* config = { ...config, ...newConfig }
updateConfig(c, newConfig) ==
    [f \in (DOMAIN c) \cup (DOMAIN newConfig) |->
        IF f \in DOMAIN newConfig THEN newConfig[f] ELSE c[f]]

\* the configuration the master sends with a registration, and may send with
\* the answer to a poll
MasterConfig == [pollInterval |-> 5000, sendInterval |-> 0, batchSize |-> 5]

PollConfigs == {NoConfig, MasterConfig}

ConfigInit ==
    /\ config = DefaultConfig
    /\ cfgPrev = DefaultConfig
    /\ cfgPartial = NoConfig

(***************************************************************************)
(* TaskResult (index.ts): errorMessage is "" when the field is absent.     *)
(***************************************************************************)
ErrorMessages == {"Missing pre-generated email content", "Invalid login", "Unknown error"}

TaskResult ==
    [queueId : 1..MaxQueueId, success : {TRUE}, errorMessage : {""}]
    \cup [queueId : 1..MaxQueueId, success : {FALSE}, errorMessage : ErrorMessages]

\* the results report() is called with when it is called alone
SampleResults ==
    {[queueId |-> 1, success |-> TRUE, errorMessage |-> ""],
     [queueId |-> MaxQueueId, success |-> FALSE, errorMessage |-> "Invalid login"]}

(***************************************************************************)
(* api-client.ts: report().  A response is "ok", a non-OK status ("401",   *)
(* "500") or "exception" (fetch or response.json() threw).                 *)
(***************************************************************************)
Responses == {"ok", "401", "500", "exception"}

MAX_RETRIES == 5
RETRY_DELAY == 30000

\* the last call of register() or poll(): none yet
NoApi == [fn |-> "none", resp |-> "none", ret |-> "none", n |-> 0]

\* a client whose try blocks handle a non-OK status but not a rejected fetch
ApiCaughtStatusOnly(fn, resp) == resp # "exception"

\* the try block of register(), poll(), report() and sendHealthCheck() covers
\* the fetch and the response.json() calls: nothing they throw leaves the function
ApiCaught(fn, resp) == TRUE

\* a report() that gives up one attempt early
ReportLastAttemptEarly(n) == n < MAX_RETRIES - 1

\* attempt < MAX_RETRIES
ReportMayRetry(n) == n < MAX_RETRIES

\* a delay that grows with the attempt
RetryDelayGrowing(n) == RETRY_DELAY * n

\* await sleep(RETRY_DELAY), whatever the attempt
RetryDelay(n) == RETRY_DELAY

\* a guard that forgets the empty batch
ReportNothingToDoTokenOnly(token, rs) == Falsy(token)

\* a guard that forgets the token
ReportNothingToDoEmptyOnly(token, rs) == Len(rs) = 0

\* !agentToken || results.length === 0
ReportNothingToDo(token, rs) == Falsy(token) \/ Len(rs) = 0

\* a report() that reads the token store again at every attempt
AttemptTokenCurrent(captured, current) == current

\* 'X-Agent-Token': agentToken, the const read at the top of report()
AttemptToken(captured, current) == captured

\* report(results) up to its first await: the guard, then the first fetch
ReportEnter(rs) ==
    /\ rpc = "idle"
    /\ rResults' = rs
    /\ rTok' = agentToken
    /\ rDelays' = << >>
    /\ rFailures' = 0
    /\ rLast' = "none"
    /\ IF ReportNothingToDo(agentToken, rs)
       THEN /\ rpc' = "done"
            /\ rRet' = "TRUE"
            /\ attempt' = 0
            /\ rSent' = << >>
       ELSE /\ rpc' = "fetch"
            /\ rRet' = "none"
            /\ attempt' = 1
            /\ rSent' = <<[token |-> agentToken, results |-> rs]>>

\* the fetch of an attempt settles
ReportResponse ==
    /\ rpc = "fetch"
    /\ \E resp \in Responses :
        /\ rLast' = resp
        /\ IF ~ApiCaught("report", resp)
           THEN /\ rpc' = "done"
                /\ rRet' = "threw"
                /\ UNCHANGED <<rFailures, rDelays>>
           ELSE IF resp = "ok"
           THEN /\ rpc' = "done"
                /\ rRet' = "TRUE"
                /\ UNCHANGED <<rFailures, rDelays>>
           ELSE /\ rFailures' = rFailures + 1
                /\ IF ReportMayRetry(attempt)
                   THEN /\ rpc' = "sleep"
                        /\ rDelays' = Append(rDelays, RetryDelay(attempt))
                        /\ UNCHANGED rRet
                   ELSE /\ rpc' = "done"
                        /\ rRet' = "FALSE"
                        /\ UNCHANGED rDelays
        /\ UNCHANGED <<attempt, rTok, rResults, rSent, agentToken, notReport>>

\* sleep(RETRY_DELAY) ends: continue, attempt++, the next fetch
ReportWake ==
    /\ rpc = "sleep"
    /\ attempt' = attempt + 1
    /\ rSent' = Append(rSent, [token |-> AttemptToken(rTok, agentToken), results |-> rResults])
    /\ rpc' = "fetch"
    /\ rLast' = "none"
    /\ UNCHANGED <<rTok, rResults, rRet, rDelays, rFailures, agentToken, notReport>>

\* report() has returned to its caller: its locals are gone, rRet is what the
\* caller got
ReportLeave ==
    /\ rpc = "done"
    /\ rpc' = "idle"
    /\ attempt' = 0
    /\ rTok' = Null
    /\ rResults' = << >>
    /\ UNCHANGED rRet
    /\ rSent' = << >>
    /\ rDelays' = << >>
    /\ rFailures' = 0
    /\ rLast' = "none"

(***************************************************************************)
(* api-client.ts: sendHealthCheck()                                        *)
(***************************************************************************)
\* a health check that gives the token up on every failure
HealthTokenAfterAnyFailure(resp, token) == IF resp # "ok" THEN "" ELSE token

\* if (response.status === 401) setAgentToken('')
HealthTokenAfter(resp, token) == IF resp = "401" THEN "" ELSE token

\* sendHealthCheck() up to its await: the guard, then the fetch
HealthCall ==
    /\ hpc = "idle"
    /\ hLast' = "none"
    /\ IF Falsy(agentToken)
       THEN /\ hRet' = "FALSE"
            /\ UNCHANGED hpc
       ELSE /\ hpc' = "fetch"
            /\ hRet' = "none"
    /\ UNCHANGED <<agentToken, notHealth>>

\* the fetch settles: true, false after a non-OK status, false from the catch
HealthResponse ==
    /\ hpc = "fetch"
    /\ \E resp \in Responses :
        /\ hpc' = "idle"
        /\ hLast' = resp
        /\ hRet' = IF ~ApiCaught("sendHealthCheck", resp) THEN "threw"
                   ELSE IF resp = "ok" THEN "TRUE" ELSE "FALSE"
        /\ agentToken' = IF ~ApiCaught("sendHealthCheck", resp) THEN agentToken
                         ELSE HealthTokenAfter(resp, agentToken)
        /\ UNCHANGED notHealth

(***************************************************************************)
(* The state after module load                                             *)
(***************************************************************************)
QInit ==
    /\ currentQueue = << >>
    /\ enqueued = 0
    /\ removed = 0
    /\ shifted = NoTask
    /\ loc = NoLoc
    /\ fifo = NoFifo
    /\ ops = 0

\* an uploadLogs() run that is not under way
NoRun == [pc |-> "idle", off |-> 0, len |-> 0]

MaxRuns == 2

\* the log uploader after construction, no log written yet
UploaderInit ==
    /\ logToken = FALSE
    /\ logSize = 0
    /\ savedOffset = 0
    /\ runs = [r \in 1..MaxRuns |-> NoRun]
    /\ okUploads = << >>

ClientIdle ==
    /\ rpc = "idle"
    /\ attempt = 0
    /\ rTok = Null
    /\ rResults = << >>
    /\ rRet = "none"
    /\ rSent = << >>
    /\ rDelays = << >>
    /\ rFailures = 0
    /\ rLast = "none"
    /\ hpc = "idle"
    /\ hRet = "none"
    /\ hLast = "none"
    /\ upc = "idle"
    /\ isChecking = FALSE
    /\ queueSize = 0
    /\ waitCount = 0
    /\ skippedChecks = FALSE
    /\ waitAborted = FALSE

(***************************************************************************)
(* index.ts: sendEmail().  The transport either sends, rejects with an     *)
(* Error (authentication, connection, rejection) or throws a non-Error.    *)
(***************************************************************************)
SendOutcomes == {"sent", "error", "nonError"}

\* const { queueId, contact, ... } = task, before the try block: throws for an
\* element of the polled array that is null
Malformed(task) == task = NoTask

\* a sendEmail without the content check
MissingContentNever(task) == FALSE

\* if (!subject || !body) throw new Error('Missing pre-generated email content')
MissingContent(task) == ~task.content

\* error instanceof Error ? error.message : 'Unknown error'
ErrorMessageOf(fault) ==
    CASE fault = "missing" -> "Missing pre-generated email content"
      [] fault = "error" -> "Invalid login"
      [] OTHER -> "Unknown error"

\* a sendEmail that reports a sent mail as not successful
SentResultNoSuccess(task) ==
    [queueId |-> task.queueId, success |-> FALSE, errorMessage |-> "Unknown error"]

SentResult(task) ==
    [queueId |-> task.queueId, success |-> TRUE, errorMessage |-> ""]

\* a failure result that loses the queueId
FailedResultNoId(task, fault) ==
    [queueId |-> 0, success |-> FALSE, errorMessage |-> ErrorMessageOf(fault)]

FailedResult(task, fault) ==
    [queueId |-> task.queueId, success |-> FALSE, errorMessage |-> ErrorMessageOf(fault)]

\* a sendEmail without try/catch
CaughtNever(fault) == FALSE

\* a try block that starts after the content check
CaughtTransportOnly(fault) == fault # "missing"

\* the try block of sendEmail covers the content check and sendMail
Caught(fault) == TRUE

\* a test that takes the task before the last for the last
NotLastOffByOne(batch, i) == i < Len(batch) - 1

\* tasks.indexOf(task) < tasks.length - 1; the elements of a parsed task array
\* are distinct objects, so indexOf(task) is the position of the task
NotLast(batch, i) == i < Len(batch)

\* a push that keeps only the newest result
PushResultReplace(rs, r) == <<r>>

\* an unshift: the newest result goes to the front
PushResultFront(rs, r) == <<r>> \o rs

\* results.push(result)
PushResult(rs, r) == Append(rs, r)

(***************************************************************************)
(* The scheduler's use of the queue and its flags                          *)
(***************************************************************************)
\* the first position (0-based) of a task with this queueId, -1 if none
FindIndex(q, queueId) ==
    IF \E i \in 1..Len(q) : q[i].queueId = queueId
    THEN (CHOOSE i \in 1..Len(q) :
             /\ q[i].queueId = queueId
             /\ \A j \in 1..(i - 1) : q[j].queueId # queueId) - 1
    ELSE -1

\* a finished task leaves the queue by identity
RemoveCompleted(q, task) == removeTaskByIndex(q, FindIndex(q, task.queueId))

\* a loop that looks at the stopPolling() flag only
DrainRequestedByHookOnly == ~isPolling

\* the loop stops polling: stopPolling() was called or the process is shutting down
DrainRequested == shuttingDown \/ ~isPolling

NA == <<[queueId |-> 0, content |-> FALSE]>>

ResultIds(rs) == [i \in 1..Len(rs) |-> rs[i].queueId]

(***************************************************************************)
(* index.ts: main()                                                        *)
(***************************************************************************)
MainInit ==
    /\ pc = "regLoop"
    /\ tasks = << >>
    /\ idx = 0
    /\ results = << >>
    /\ mode = "batch"
    /\ isPolling = TRUE
    /\ shuttingDown = FALSE
    /\ isProcessing = FALSE
    /\ exited = "no"
    /\ batchReports = 0
    /\ reported = << >>
    /\ faults = 0
    /\ sends = 0
    /\ polledUnregistered = FALSE
    /\ apiLast = NoApi
    /\ snap = NA
    /\ snapInFlight = NA
    /\ drainLog = << >>

\* a main() that skips its registration loop
NeedsRegistrationNever(token) == FALSE

\* while (!agentToken)
NeedsRegistration(token) == Falsy(token)

\* while (!agentToken) { const success = await register(); ... }
RegisterLoop ==
    /\ exited = "no"
    /\ pc = "regLoop"
    /\ pc' = IF NeedsRegistration(agentToken) THEN "registering" ELSE "loopTop"
    /\ UNCHANGED <<tasks, idx, results, mode, isProcessing, batchReports, reported,
                   faults, sends, polledUnregistered, apiLast, drainLog>>
    /\ UNCHANGED <<qvars, agentToken, rvars, hvars, lvars, cvars, fvars, uvars>>

\* api-client.ts register(): the fetch settles
RegisterResponse ==
    /\ exited = "no"
    /\ pc = "registering"
    /\ \E resp \in Responses, token \in ServerTokens :
        /\ IF ~ApiCaught("register", resp)
           THEN /\ pc' = "crashed"
                /\ apiLast' = [fn |-> "register", resp |-> resp, ret |-> "threw", n |-> 0]
                /\ UNCHANGED <<agentToken, config>>
           ELSE IF resp = "ok"
           THEN /\ agentToken' = token
                /\ config' = updateConfig(config, MasterConfig)
                /\ apiLast' = [fn |-> "register", resp |-> resp, ret |-> "TRUE", n |-> 0]
                /\ pc' = "regLoop"
           ELSE /\ pc' = "regSleep"
                /\ apiLast' = [fn |-> "register", resp |-> resp, ret |-> "FALSE", n |-> 0]
                /\ UNCHANGED <<agentToken, config>>
        /\ UNCHANGED <<tasks, idx, results, mode, isProcessing, batchReports,
                       reported, faults, sends, polledUnregistered, drainLog>>
        /\ UNCHANGED <<qvars, rvars, hvars, lvars, cfgPrev, cfgPartial, fvars, uvars>>

\* await sleep(10000) of the registration loop ends
RegSleepWake ==
    /\ exited = "no"
    /\ pc = "regSleep"
    /\ pc' = "regLoop"
    /\ UNCHANGED <<tasks, idx, results, mode, isProcessing, batchReports, reported,
                   faults, sends, polledUnregistered, apiLast, drainLog>>
    /\ UNCHANGED <<qvars, agentToken, rvars, hvars, lvars, cvars, fvars, uvars>>

\* the top of while (true): poll() up to its fetch
LoopTop ==
    /\ exited = "no"
    /\ pc = "loopTop"
    /\ IF DrainRequested
       THEN /\ pc' = "drainTop"
            /\ UNCHANGED polledUnregistered
       ELSE IF Falsy(agentToken)
       THEN /\ pc' = "pollSleep"
            /\ polledUnregistered' = TRUE
       ELSE /\ pc' = "polling"
            /\ UNCHANGED polledUnregistered
    /\ UNCHANGED <<tasks, idx, results, mode, isProcessing, batchReports, reported,
                   faults, sends, apiLast, drainLog>>
    /\ UNCHANGED <<qvars, agentToken, rvars, hvars, lvars, cvars, fvars, uvars>>

\* api-client.ts poll(): the fetch settles; main() up to the for loop.
\* batches: the task lists the master may answer with
PollResponseFrom(batches) ==
    /\ exited = "no"
    /\ pc = "polling"
    /\ \E resp \in Responses, batch \in batches, cfg \in PollConfigs :
        /\ Len(currentQueue) + Len(batch) <= MaxQueue
        /\ config' = IF resp = "ok" /\ ApiCaught("poll", resp)
                     THEN updateConfig(config, cfg) ELSE config
        /\ IF ~ApiCaught("poll", resp)
           THEN /\ pc' = "errSleep"
                /\ apiLast' = [fn |-> "poll", resp |-> resp, ret |-> "threw", n |-> 0]
                /\ UNCHANGED <<tasks, idx, results, mode, currentQueue, agentToken,
                               isProcessing, batchReports, reported, faults, sends>>
           ELSE IF resp = "ok" /\ Len(batch) > 0
           THEN /\ apiLast' = [fn |-> "poll", resp |-> resp, ret |-> "tasks", n |-> Len(batch)]
                /\ tasks' = batch
                /\ idx' = 1
                /\ results' = << >>
                /\ mode' = "batch"
                /\ currentQueue' = addTasks(currentQueue, batch)
                /\ isProcessing' = TRUE
                /\ batchReports' = 0
                /\ reported' = << >>
                /\ faults' = 0
                /\ sends' = 0
                /\ pc' = "forTop"
                /\ UNCHANGED agentToken
           ELSE /\ agentToken' = IF resp = "401" THEN "" ELSE agentToken
                /\ apiLast' = [fn |-> "poll", resp |-> resp, ret |-> "tasks", n |-> 0]
                /\ pc' = "pollSleep"
                /\ UNCHANGED <<tasks, idx, results, mode, currentQueue,
                               isProcessing, batchReports, reported, faults, sends>>
        /\ UNCHANGED <<polledUnregistered, drainLog>>
        /\ UNCHANGED <<enqueued, removed, shifted, ops, loc, fifo, rvars, hvars, lvars, cfgPrev,
                       cfgPartial, fvars, uvars>>

\* await report(results), up to the first await of report()
CallReport(rs) ==
    /\ ReportEnter(rs)
    /\ pc' = "reporting"
    /\ reported' = rs
    /\ batchReports' = batchReports + 1
    /\ drainLog' = IF mode = "drain" THEN Append(drainLog, ResultIds(rs)) ELSE drainLog

\* results.push(result) and what follows up to the next await
AfterResult(r) ==
    /\ results' = PushResult(results, r)
    /\ currentQueue' = IF mode = "batch"
                       THEN RemoveCompleted(currentQueue, tasks[idx])
                       ELSE currentQueue
    /\ IF NotLast(tasks, idx)
       THEN /\ pc' = "sendSleep"
            /\ UNCHANGED <<rvars, reported, batchReports, drainLog>>
       ELSE CallReport(PushResult(results, r))
    /\ UNCHANGED isProcessing

\* a main() without the try/catch in its loop: the exception ends it
ToCrash ==
    /\ pc' = "crashed"
    /\ isProcessing' = FALSE
    /\ UNCHANGED <<results, currentQueue, rvars, reported, batchReports, drainLog>>

\* an exception leaves the try block of main(): catch, await sleep(10000)
ToCatch ==
    /\ pc' = "errSleep"
    /\ isProcessing' = FALSE
    /\ UNCHANGED <<results, currentQueue, rvars, reported, batchReports, drainLog>>

\* sendEmail(task) fails with this fault
SendFails(fault) ==
    /\ faults' = faults + 1
    /\ UNCHANGED sends
    /\ IF Caught(fault)
       THEN AfterResult(FailedResult(tasks[idx], fault))
       ELSE ToCatch

\* the body of for (const task of tasks), up to the await in sendEmail
ForTop ==
    /\ exited = "no"
    /\ pc = "forTop"
    /\ IF mode = "batch" /\ shuttingDown
       THEN /\ CallReport(results)
            /\ UNCHANGED <<results, currentQueue, faults, sends, isProcessing>>
       ELSE IF Malformed(tasks[idx])
       THEN /\ ToCatch
            /\ UNCHANGED <<faults, sends>>
       ELSE IF MissingContent(tasks[idx])
       THEN SendFails("missing")
       ELSE /\ pc' = "sending"
            /\ sends' = sends + 1
            /\ UNCHANGED <<results, currentQueue, faults, isProcessing,
                           rvars, reported, batchReports, drainLog>>
    /\ UNCHANGED <<tasks, idx, mode, polledUnregistered, apiLast>>
    /\ UNCHANGED <<enqueued, removed, shifted, ops, loc, fifo, agentToken, hvars, lvars, cvars, fvars, uvars>>

\* transporter.sendMail() settles
SendResponse ==
    /\ exited = "no"
    /\ pc = "sending"
    /\ \E outcome \in SendOutcomes :
        /\ IF outcome = "sent"
           THEN /\ AfterResult(SentResult(tasks[idx]))
                /\ UNCHANGED <<faults, sends>>
           ELSE SendFails(outcome)
        /\ UNCHANGED <<tasks, idx, mode, polledUnregistered, apiLast>>
        /\ UNCHANGED <<enqueued, removed, shifted, ops, loc, fifo, agentToken, hvars, lvars, cvars, fvars, uvars>>

\* await sleep(config.sendInterval) between two tasks ends
SendSleepWake ==
    /\ exited = "no"
    /\ pc = "sendSleep"
    /\ idx' = idx + 1
    /\ pc' = "forTop"
    /\ UNCHANGED <<tasks, results, mode, isProcessing, batchReports, reported, faults, sends,
                   polledUnregistered, apiLast, drainLog>>
    /\ UNCHANGED <<qvars, agentToken, rvars, hvars, lvars, cvars, fvars, uvars>>

\* a main() that gives up when report() returns false
NextAfterReportFatal(ret, m) ==
    IF ret = "FALSE" THEN "crashed"
    ELSE IF ret = "threw" THEN "errSleep"
    ELSE IF m = "drain" THEN "drainSleep" ELSE "pollSleep"

\* await report(results): the returned value is not looked at; an exception
\* thrown by report() would go to the catch of the loop
NextAfterReport(ret, m) ==
    IF ret = "threw" THEN "errSleep"
    ELSE IF m = "drain" THEN "drainSleep" ELSE "pollSleep"

\* report() has returned: the sleep that ends the iteration
ReportDone ==
    /\ exited = "no"
    /\ pc = "reporting"
    /\ ReportLeave
    /\ isProcessing' = FALSE
    /\ pc' = NextAfterReport(rRet, mode)
    /\ UNCHANGED <<tasks, idx, results, mode, batchReports, reported, faults, sends,
                   polledUnregistered, apiLast, drainLog>>
    /\ UNCHANGED <<qvars, agentToken, hvars, lvars, cvars, fvars, uvars>>

\* await sleep(config.pollInterval), or the sleep(10000) of the catch, ends
SleepWake ==
    /\ exited = "no"
    /\ pc \in {"pollSleep", "errSleep"}
    /\ pc' = "loopTop"
    /\ tasks' = << >>
    /\ results' = << >>
    /\ idx' = 0
    /\ batchReports' = 0
    /\ reported' = << >>
    /\ faults' = 0
    /\ sends' = 0
    /\ rRet' = "none"
    /\ UNCHANGED <<mode, isProcessing, polledUnregistered, apiLast, drainLog>>
    /\ UNCHANGED <<qvars, agentToken, rvarsButRet, hvars, lvars, cvars, fvars, uvars>>

(***************************************************************************)
(* Draining and shutdown                                                   *)
(***************************************************************************)
\* a drain iteration: one task from the front, or the end of the loop
DrainTop ==
    /\ exited = "no"
    /\ pc = "drainTop"
    /\ IF getQueueSize(currentQueue) > 0
       THEN /\ tasks' = <<shiftTask(currentQueue).task>>
            /\ currentQueue' = shiftTask(currentQueue).queue
            /\ idx' = 1
            /\ results' = << >>
            /\ mode' = "drain"
            /\ isProcessing' = TRUE
            /\ batchReports' = 0
            /\ reported' = << >>
            /\ faults' = 0
            /\ sends' = 0
            /\ pc' = "forTop"
       ELSE /\ pc' = "terminated"
            /\ UNCHANGED <<tasks, currentQueue, idx, results, mode, isProcessing,
                           batchReports, reported, faults, sends>>
    /\ UNCHANGED <<polledUnregistered, apiLast, drainLog>>
    /\ UNCHANGED <<enqueued, removed, shifted, ops, loc, fifo, agentToken, rvars, hvars, lvars, cvars, fvars, uvars>>

\* the inter-send sleep of a drain iteration ends
DrainSleepWake ==
    /\ exited = "no"
    /\ pc = "drainSleep"
    /\ pc' = "drainTop"
    /\ tasks' = << >>
    /\ results' = << >>
    /\ idx' = 0
    /\ batchReports' = 0
    /\ reported' = << >>
    /\ faults' = 0
    /\ sends' = 0
    /\ rRet' = "none"
    /\ UNCHANGED <<mode, isProcessing, polledUnregistered, apiLast, drainLog>>
    /\ UNCHANGED <<qvars, agentToken, rvarsButRet, hvars, lvars, cvars, fvars, uvars>>

\* a termination signal arrives
ShutdownSignal ==
    /\ exited = "no"
    /\ ~shuttingDown
    /\ shuttingDown' = TRUE
    /\ snap' = IF pc \in {"sending", "polling"} THEN NA ELSE currentQueue
    /\ snapInFlight' = IF pc = "sending" THEN currentQueue ELSE NA
    /\ UNCHANGED <<isPolling, exited>>
    /\ UNCHANGED <<qvars, agentToken, rvars, hvars, lvars, cvars, mvars, uvars>>

\* the once-per-second wait of the shutdown finds nothing queued or in flight
ShutdownExit ==
    /\ exited = "no"
    /\ shuttingDown
    /\ getQueueSize(currentQueue) = 0
    /\ ~isProcessing
    /\ exited' = "shutdown"
    /\ UNCHANGED <<isPolling, shuttingDown, snap, snapInFlight>>
    /\ UNCHANGED <<qvars, agentToken, rvars, hvars, lvars, cvars, mvars, uvars>>

PollResponse == PollResponseFrom(SeqsUpTo(Task, MaxBatch))

\* the steps of main() other than the poll response and the sleep of a drain step
MainOther ==
    \/ RegisterLoop \/ RegisterResponse \/ RegSleepWake
    \/ LoopTop \/ ForTop \/ SendResponse \/ SendSleepWake
    \/ (exited = "no" /\ pc = "reporting" /\ (ReportResponse \/ ReportWake))
    \/ ReportDone \/ SleepWake
    \/ DrainTop

MainStep == PollResponse \/ MainOther \/ DrainSleepWake

Init ==
    /\ QInit
    /\ UploaderInit
    /\ agentToken = Null
    /\ ClientIdle
    /\ MainInit
    /\ ConfigInit

Next == MainStep \/ ShutdownSignal \/ ShutdownExit

Spec == Init /\ [][Next]_vars

(***************************************************************************)
(* update-checker.ts: UpdateChecker                                        *)
(***************************************************************************)
maxWaitMinutes == 30
checkIntervalSeconds == 5

\* a bound in seconds instead of iterations
MaxWaitIterationsInSeconds == maxWaitMinutes * 60

\* maxWaitMinutes * 60 / checkIntervalSeconds
MaxWaitIterations == (maxWaitMinutes * 60) \div checkIntervalSeconds

CheckOutcomes == {"upToDate", "newVersion", "error"}

\* a hook that leaves the flag as it is
stopPollingNoop == UNCHANGED isPolling

\* a hook that flips the flag instead of clearing it
stopPollingToggle == isPolling' = ~isPolling

\* stopPolling(): the hook the agent gives to the update checker
stopPolling == isPolling' = FALSE

\* a checkForUpdates() that returns without its finally block
CheckReturnsKeepsFlag ==
    /\ upc' = "idle"
    /\ queueSize' = 0
    /\ waitCount' = 0
    /\ UNCHANGED <<isChecking, exited>>

\* checkForUpdates() returns: finally { this.isChecking = false }
CheckReturns ==
    /\ upc' = "idle"
    /\ isChecking' = FALSE
    /\ queueSize' = 0
    /\ waitCount' = 0
    /\ UNCHANGED exited

\* performUpdate() from the test of its while loop, with these values of
\* queueSize and waitCount, to its next await
WaitLoop(size, count) ==
    IF size > 0 /\ count < MaxWaitIterations
    THEN /\ upc' = "waitSleep"
         /\ queueSize' = size
         /\ waitCount' = count
         /\ UNCHANGED <<isChecking, exited, waitAborted>>
    ELSE IF size > 0
    THEN /\ CheckReturns
         /\ waitAborted' = TRUE
    ELSE \E scriptExists \in BOOLEAN :
            IF scriptExists
            THEN /\ upc' = "script"
                 /\ queueSize' = size
                 /\ waitCount' = count
                 /\ UNCHANGED <<isChecking, exited, waitAborted>>
            ELSE /\ CheckReturns
                 /\ UNCHANGED waitAborted

\* start() or a tick of the interval timer: checkForUpdates() to its first await
CheckForUpdates ==
    /\ exited = "no"
    /\ IF isChecking
       THEN /\ skippedChecks' = TRUE
            /\ UNCHANGED <<upc, isChecking, queueSize, waitCount, waitAborted>>
       ELSE /\ isChecking' = TRUE
            /\ upc' = "gitCheck"
            /\ waitAborted' = FALSE
            /\ UNCHANGED <<queueSize, waitCount, skippedChecks>>
    /\ UNCHANGED <<qvars, agentToken, rvars, hvars, lvars, cvars, mvars, fvars>>

\* the git commands settle; with a new version, performUpdate() to its first await
GitResult ==
    /\ exited = "no"
    /\ upc = "gitCheck"
    /\ \E outcome \in CheckOutcomes :
        IF outcome = "newVersion"
        THEN /\ stopPolling
             /\ WaitLoop(getQueueSize(currentQueue), 0)
        ELSE /\ CheckReturns
             /\ UNCHANGED <<isPolling, waitAborted>>
    /\ UNCHANGED <<shuttingDown, snap, snapInFlight, skippedChecks>>
    /\ UNCHANGED <<qvars, agentToken, rvars, hvars, lvars, cvars, mvars>>

\* the 5 s timeout of the wait loop ends: queueSize = getQueueSize(); waitCount++
WaitWake ==
    /\ exited = "no"
    /\ upc = "waitSleep"
    /\ WaitLoop(getQueueSize(currentQueue), waitCount + 1)
    /\ UNCHANGED <<isPolling, shuttingDown, snap, snapInFlight, skippedChecks>>
    /\ UNCHANGED <<qvars, agentToken, rvars, hvars, lvars, cvars, mvars>>

\* chmod and ./auto-update.sh settle: process.exit(0), or the catch
ScriptDone ==
    /\ exited = "no"
    /\ upc = "script"
    /\ \E ok \in BOOLEAN :
        IF ok
        THEN /\ exited' = "update"
             /\ UNCHANGED <<upc, isChecking, queueSize, waitCount, waitAborted>>
        ELSE /\ CheckReturns
             /\ UNCHANGED waitAborted
    /\ UNCHANGED <<isPolling, shuttingDown, snap, snapInFlight, skippedChecks>>
    /\ UNCHANGED <<qvars, agentToken, rvars, hvars, lvars, cvars, mvars>>

UpdateStep == CheckForUpdates \/ GitResult \/ WaitWake \/ ScriptDone

(***************************************************************************)
(* The agent with its update checker and no termination signal, the master *)
(* answering polls with short batches.  Without a signal a batch is never  *)
(* cut short, so a drain step finds the queue empty and never sleeps.      *)
(***************************************************************************)
MaxUpdateBatch == 2

UpdateBatches ==
    SeqsUpTo({[queueId |-> 1, content |-> TRUE], [queueId |-> 2, content |-> FALSE]},
             MaxUpdateBatch)

UpdatePoll == PollResponseFrom(UpdateBatches)

UNext == UpdatePoll \/ MainOther \/ UpdateStep

SpecUpdate == Init /\ [][UNext]_vars

(***************************************************************************)
(* The agent with a master whose task arrays may hold null elements        *)
(***************************************************************************)
MaxFaultBatch == 2

FaultBatches == SeqsUpTo({[queueId |-> 1, content |-> TRUE], NoTask}, MaxFaultBatch)

FaultPoll == PollResponseFrom(FaultBatches)

\* the steps of main(): continuations run, timers expire, requests settle
FaultMain == FaultPoll \/ MainOther \/ DrainSleepWake

FNext == FaultMain \/ ShutdownSignal \/ ShutdownExit

SpecFault == Init /\ [][FNext]_vars /\ WF_vars(FaultMain)

(***************************************************************************)
(* The queue driven by arbitrary calls                                     *)
(***************************************************************************)
SpecQueueInit ==
    /\ QInit
    /\ UploaderInit
    /\ agentToken = Null
    /\ ClientIdle
    /\ MainInit
    /\ ConfigInit

\* addTasks(batch) and what the histories other than fifo record of it
AddTasksCall(batch) ==
    /\ Len(currentQueue) + Len(batch) <= MaxQueue
    /\ currentQueue' = addTasks(currentQueue, batch)
    /\ enqueued' = enqueued + Len(batch)
    /\ ops' = ops + 1
    /\ UNCHANGED <<removed, shifted, loc, notQueue>>

\* shiftTask() and what the histories other than fifo record of it
ShiftTaskCall ==
    /\ currentQueue' = shiftTask(currentQueue).queue
    /\ shifted' = shiftTask(currentQueue).task
    /\ removed' = IF Len(currentQueue) > 0 THEN removed + 1 ELSE removed
    /\ ops' = ops + 1
    /\ UNCHANGED <<enqueued, loc, notQueue>>

QAddTasksFrom(batches) ==
    /\ ops < MaxOps
    /\ \E batch \in batches :
        /\ AddTasksCall(batch)
        /\ UNCHANGED fifo

QAddTasks == QAddTasksFrom(SeqsUpTo(Task, MaxBatch))

\* tasks that are all alike
SameTaskBatches == SeqsUpTo({[queueId |-> 1, content |-> TRUE]}, MaxUpdateBatch)

QAddSameTasks == QAddTasksFrom(SameTaskBatches)

QRemoveTaskByIndex ==
    /\ ops < MaxOps
    /\ \E index \in -1..MaxQueue :
        /\ currentQueue' = removeTaskByIndex(currentQueue, index)
        /\ removed' = IF index >= 0 /\ index < Len(currentQueue)
                      THEN removed + 1 ELSE removed
        /\ ops' = ops + 1
        /\ UNCHANGED <<enqueued, shifted, loc, fifo, notQueue>>

QShiftTask ==
    /\ ops < MaxOps
    /\ ShiftTaskCall
    /\ UNCHANGED fifo

QNext == QAddTasks \/ QRemoveTaskByIndex \/ QShiftTask

SpecQueue == SpecQueueInit /\ [][QNext]_vars

(***************************************************************************)
(* The queue used by a caller that locates a task by its queueId and       *)
(* removes it later, other calls coming in between                         *)
(***************************************************************************)
\* currentQueue.findIndex(t => t.queueId === queueId), for a queued task
QLocate ==
    /\ ops < MaxOps
    /\ ~loc.done
    /\ \E queueId \in 1..MaxQueueId :
        /\ FindIndex(currentQueue, queueId) >= 0
        /\ loc' = [index |-> FindIndex(currentQueue, queueId),
                   task |-> currentQueue[FindIndex(currentQueue, queueId) + 1],
                   removed |-> NoTask,
                   done |-> FALSE]
        /\ ops' = ops + 1
        /\ UNCHANGED <<currentQueue, enqueued, removed, shifted, fifo, notQueue>>

\* removeTaskByIndex(index) with the index located before
QRemoveLocated ==
    /\ ops < MaxOps
    /\ loc.index >= 0
    /\ ~loc.done
    /\ currentQueue' = removeTaskByIndex(currentQueue, loc.index)
    /\ loc' = [loc EXCEPT !.done = TRUE,
                          !.removed = IF loc.index < Len(currentQueue)
                                      THEN currentQueue[loc.index + 1]
                                      ELSE NoTask]
    /\ removed' = IF loc.index < Len(currentQueue) THEN removed + 1 ELSE removed
    /\ ops' = ops + 1
    /\ UNCHANGED <<enqueued, shifted, fifo, notQueue>>

LNext == QAddTasks \/ QShiftTask \/ QLocate \/ QRemoveLocated

SpecLocate == SpecQueueInit /\ [][LNext]_vars

(***************************************************************************)
(* The queue used with addTasks and shiftTask only, every task that goes   *)
(* in and every task that comes out written down                           *)
(***************************************************************************)
FAddTasks ==
    /\ ops < MaxOps
    /\ \E batch \in SeqsUpTo(Task, MaxBatch) :
        /\ AddTasksCall(batch)
        /\ fifo' = [fifo EXCEPT !.in = fifo.in \o batch, !.last = "addTasks"]

FShiftTask ==
    /\ ops < MaxOps
    /\ ShiftTaskCall
    /\ fifo' = [fifo EXCEPT !.out = IF shiftTask(currentQueue).task = NoTask
                                    THEN fifo.out
                                    ELSE Append(fifo.out, shiftTask(currentQueue).task),
                            !.last = "shiftTask"]

FifoNext == FAddTasks \/ FShiftTask

SpecFifo == SpecQueueInit /\ [][FifoNext]_vars

(***************************************************************************)
(* The queue used with addTasks and removeTaskByIndex, the index of every  *)
(* removal written down (loc.index), also indexes outside the queue        *)
(***************************************************************************)
\* addTasks with no task or with one task
RAddTasks ==
    /\ ops < MaxOps
    /\ \E batch \in SeqsUpTo(Task, 1) :
        /\ AddTasksCall(batch)
        /\ fifo' = [fifo EXCEPT !.last = "addTasks"]

RRemoveTaskByIndex ==
    /\ ops < MaxOps
    /\ \E index \in -2..(MaxQueue + 1) :
        /\ currentQueue' = removeTaskByIndex(currentQueue, index)
        /\ removed' = IF index >= 0 /\ index < Len(currentQueue)
                      THEN removed + 1 ELSE removed
        /\ loc' = [index |-> index,
                   task |-> NoTask,
                   removed |-> IF index >= 0 /\ index < Len(currentQueue)
                               THEN currentQueue[index + 1] ELSE NoTask,
                   done |-> TRUE]
    /\ fifo' = [fifo EXCEPT !.last = "removeTaskByIndex"]
    /\ ops' = ops + 1
    /\ UNCHANGED <<enqueued, shifted, notQueue>>

RemNext == RAddTasks \/ RRemoveTaskByIndex

SpecRemove == SpecQueueInit /\ [][RemNext]_vars

(***************************************************************************)
(* The update checker beside a queue that is filled and emptied by         *)
(* arbitrary calls; the 5 s timer of the wait loop expires whenever it is  *)
(* set                                                                     *)
(***************************************************************************)
WNext == QAddSameTasks \/ QShiftTask \/ UpdateStep

SpecWait == SpecQueueInit /\ [][WNext]_vars /\ WF_vars(WaitWake)

(***************************************************************************)
(* The agent with its update checker and a master that answers a poll with *)
(* no task, one task or two tasks                                          *)
(***************************************************************************)
AbortBatches ==
    {<< >>,
     <<[queueId |-> 1, content |-> TRUE]>>,
     <<[queueId |-> 1, content |-> TRUE], [queueId |-> 1, content |-> TRUE]>>}

AbortPoll == PollResponseFrom(AbortBatches)

AbNext == AbortPoll \/ MainOther \/ UpdateStep

SpecAbort == Init /\ [][AbNext]_vars

(***************************************************************************)
(* C1: after every sequence of addTasks, shiftTask and removeTaskByIndex   *)
(* calls, getQueueSize() is the number of tasks enqueued minus the number  *)
(* of removals that removed a task, and it is never negative.              *)
(***************************************************************************)
C1_SizeAccounting ==
    /\ getQueueSize(currentQueue) = enqueued - removed
    /\ getQueueSize(currentQueue) >= 0

\* a removal that removed nothing has happened after real removals
C1_Witness ==
    /\ ops = MaxOps
    /\ enqueued >= 2
    /\ removed >= 1
    /\ ops > 1 + removed
    /\ getQueueSize(currentQueue) = enqueued - removed

(***************************************************************************)
(* report() called with arbitrary results in an arbitrary token state,     *)
(* while health checks run                                                 *)
(***************************************************************************)
SpecReportInit ==
    /\ QInit
    /\ UploaderInit
    /\ agentToken \in {Null, ""} \cup Tokens
    /\ ClientIdle
    /\ MainInit
    /\ ConfigInit

RCall ==
    /\ rpc = "idle"
    /\ \E rs \in SeqsUpTo(SampleResults, MaxBatch) :
        /\ ReportEnter(rs)
        /\ UNCHANGED <<agentToken, notReport>>

RReturn ==
    /\ ReportLeave
    /\ UNCHANGED <<agentToken, notReport>>

RNext == RCall \/ ReportResponse \/ ReportWake \/ RReturn \/ HealthCall \/ HealthResponse

SpecReport == SpecReportInit /\ [][RNext]_vars

(***************************************************************************)
(* report() and the health check while the token store is written by       *)
(* arbitrary setAgentToken calls                                           *)
(***************************************************************************)
SetAgentToken ==
    /\ \E token \in Tokens \cup {""} : agentToken' = token
    /\ UNCHANGED <<qvars, rvars, hvars, lvars, mvars, fvars, uvars, cvars>>

TNext == RNext \/ SetAgentToken

SpecToken == SpecReportInit /\ [][TNext]_vars

(***************************************************************************)
(* C4: with a token set and a non-empty batch, when every attempt fails    *)
(* report() makes exactly 5 attempts, sleeps 30 s between consecutive      *)
(* attempts (4 sleeps, none after the 5th) and returns false after the     *)
(* 5th; it does not return before while every attempt has failed.          *)
(***************************************************************************)
C4_RetryBound ==
    (rFailures > 0 /\ rFailures = Len(rSent)) =>
        /\ (rpc = "done" =>
              /\ rRet = "FALSE"
              /\ Len(rSent) = 5
              /\ rDelays = <<30000, 30000, 30000, 30000>>)
        /\ (rpc = "sleep" => Len(rSent) < 5 /\ Len(rDelays) = Len(rSent))
        /\ rpc \in {"done", "sleep", "idle"}
        /\ \A i \in 1..Len(rDelays) : rDelays[i] = 30000

C4_Witness ==
    /\ rpc = "done"
    /\ rRet = "FALSE"
    /\ rFailures = 5
    /\ Len(rSent) = 5
    /\ Len(rResults) > 0

(***************************************************************************)
(* C5: report([]) returns true without a network call, whatever the token. *)
(***************************************************************************)
C5_EmptyReport ==
    (rpc \in {"fetch", "sleep", "done"} /\ rResults = << >>) =>
        /\ rpc = "done"
        /\ rRet = "TRUE"
        /\ rSent = << >>

C5_Witness ==
    /\ rpc = "done"
    /\ rResults = << >>
    /\ agentToken \in Tokens
    /\ rRet = "TRUE"

(***************************************************************************)
(* C9: a 401 response to a report attempt invalidates the agent token.     *)
(***************************************************************************)
C9_Report401ClearsToken ==
    (rpc \in {"sleep", "done"} /\ rLast = "401") => Falsy(agentToken)

(***************************************************************************)
(* C6: the TaskResult sendEmail returns for a task carries that task's     *)
(* queueId, when the send succeeded, when the content was missing and when *)
(* the transport failed.                                                   *)
(***************************************************************************)
C6_QueueIdCorrelation ==
    /\ Len(results) <= Len(tasks)
    /\ \A i \in 1..Len(results) : results[i].queueId = tasks[i].queueId

\* one batch with a sent task, a task without content and a transport error
C6_Witness ==
    /\ Len(results) = 3
    /\ results[1].success
    /\ results[2].errorMessage = "Missing pre-generated email content"
    /\ results[3].errorMessage = "Invalid login"
    /\ tasks[1].queueId # tasks[2].queueId
    /\ \A i \in 1..3 : results[i].queueId = tasks[i].queueId

C8_ReRegistersBeforePoll == ~polledUnregistered

C10_ExitOnlyWhenIdle ==
    (exited # "no" \/ pc = "terminated") =>
        /\ getQueueSize(currentQueue) = 0
        /\ ~isProcessing
        /\ pc \notin {"forTop", "sending", "sendSleep", "reporting"}

C13_SequentialInOrder ==
    (mode = "batch" /\ tasks # << >>) =>
        /\ Len(results) <= Len(tasks)
        /\ \A i \in 1..Len(results) :
              /\ results[i].queueId = tasks[i].queueId
              /\ (MissingContent(tasks[i]) => ~results[i].success)
        /\ (pc \in {"forTop", "sending"} => idx = Len(results) + 1 /\ batchReports = 0)
        /\ (pc = "sendSleep" => idx = Len(results) /\ idx < Len(tasks) /\ batchReports = 0)
        /\ (pc \in {"reporting", "pollSleep"} =>
              /\ batchReports = 1
              /\ reported = results
              /\ (Len(results) < Len(tasks) => shuttingDown))
        /\ (pc = "reporting" => rResults = results)

\* a whole batch of three with differing ids is being reported, no signal
C13_Witness ==
    /\ mode = "batch"
    /\ pc = "reporting"
    /\ ~shuttingDown
    /\ Len(tasks) = 3
    /\ tasks[1].queueId # tasks[2].queueId
    /\ ResultIds(rResults) = [i \in 1..3 |-> tasks[i].queueId]

(***************************************************************************)
(* C14: an exception inside an iteration of the polling loop is caught by  *)
(* the loop: the loop sleeps and starts another iteration; it does not     *)
(* end, and unless a termination signal came it polls again.               *)
(***************************************************************************)
C14_LoopSurvivesException ==
    /\ (pc = "forTop" /\ Malformed(tasks[idx]) /\ ~shuttingDown)
          ~> (pc = "errSleep" \/ shuttingDown)
    /\ (pc = "errSleep") ~> (pc = "polling" \/ shuttingDown)
    /\ [](pc = "errSleep" => ~isProcessing /\ (exited = "no" \/ shuttingDown))

\* a poll is outstanding while the tasks of an abandoned batch are still queued
C14_Witness ==
    /\ pc = "polling"
    /\ ~shuttingDown
    /\ \E i \in 1..Len(currentQueue) : Malformed(currentQueue[i])

(***************************************************************************)
(* C15: the agent leaves the registration loop only after a register()     *)
(* call has succeeded and stored a token: before that nothing is polled,   *)
(* executed, queued or reported, and a poll request is sent only with a    *)
(* token.                                                                  *)
(***************************************************************************)
C15_RegisteredBeforePolling ==
    /\ (agentToken = Null =>
          /\ pc \in {"regLoop", "registering", "regSleep"}
          /\ tasks = << >>
          /\ currentQueue = << >>
          /\ rpc = "idle")
    /\ (pc \in {"regLoop", "registering", "regSleep"} =>
          tasks = << >> /\ currentQueue = << >> /\ rpc = "idle")
    /\ (pc = "polling" => ~Falsy(agentToken))

\* a registration was answered without a token, a later one with a token, and
\* the first poll is outstanding
C15_Witness ==
    /\ pc = "polling"
    /\ agentToken \in Tokens
    /\ tasks = << >>
    /\ ~shuttingDown

(***************************************************************************)
(* C16: while the agent has no token, a register() attempt that leaves it  *)
(* without a token is followed by the 10-second sleep before the next      *)
(* attempt, also when register() returned true with an empty token.        *)
(***************************************************************************)
C16_BackoffBetweenAttempts ==
    [][(pc = "registering" /\ Falsy(agentToken')) =>
          pc' \in {"registering", "regSleep"}]_vars

(***************************************************************************)
(* C17: a report() that returns false after its last retry does not stop   *)
(* the scheduler: the iteration goes on to its sleep, the results are      *)
(* dropped (there is no second report() for them), and unless a            *)
(* termination signal came the next poll follows.                          *)
(***************************************************************************)
C17_FailedReportNotFatal ==
    /\ [][(pc = "reporting" /\ rpc = "done" /\ rRet = "FALSE" /\ pc' # pc) =>
              /\ pc' = (IF mode = "drain" THEN "drainSleep" ELSE "pollSleep")
              /\ rpc' = "idle"
              /\ rResults' = << >>
              /\ batchReports' = batchReports
              /\ exited' = "no"]_vars
    /\ [][(rRet = "FALSE" /\ pc \in {"pollSleep", "drainSleep"} /\ pc' # pc) =>
              /\ pc' \in {"loopTop", "drainTop"}
              /\ results' = << >>
              /\ rpc' = "idle"]_vars
    /\ (pc = "reporting" /\ rpc = "done" /\ rRet = "FALSE")
          ~> (pc = "polling" \/ shuttingDown)

\* the loop sleeps the poll interval after a report() that returned false
C17_Witness ==
    /\ pc = "pollSleep"
    /\ rRet = "FALSE"
    /\ rpc = "idle"
    /\ Len(results) > 0
    /\ ~shuttingDown

C19_RemovesLocatedTask == loc.done => loc.removed = loc.task

(***************************************************************************)
(* C20: no two tasks in the queue have the same queueId, whatever batches  *)
(* addTasks was called with.                                               *)
(***************************************************************************)
C20_UniqueQueueIds ==
    \A i, j \in 1..Len(currentQueue) :
        i # j => currentQueue[i].queueId # currentQueue[j].queueId

(***************************************************************************)
(* C21: the queue is FIFO.  addTasks appends its tasks in order behind the *)
(* queued ones; the tasks successive shiftTask calls return, followed by   *)
(* what is still queued, are the tasks given to addTasks in the order      *)
(* given; a shiftTask that returns undefined leaves the queue empty.       *)
(***************************************************************************)
C21_Fifo ==
    /\ fifo.in = fifo.out \o currentQueue
    /\ (fifo.last = "shiftTask" /\ shifted = NoTask => currentQueue = << >>)
    /\ (fifo.last = "shiftTask" /\ shifted # NoTask =>
          fifo.out # << >> /\ shifted = fifo.out[Len(fifo.out)])

\* two differing tasks came out in order, a task added later is still queued,
\* after shiftTask had once found the queue empty
C21_Witness ==
    /\ Len(fifo.out) = 2
    /\ fifo.out[1] # fifo.out[2]
    /\ fifo.in = fifo.out
    /\ fifo.last = "shiftTask"
    /\ shifted = NoTask
    /\ currentQueue = << >>

(***************************************************************************)
(* updateConfig called with arbitrary partial configurations               *)
(***************************************************************************)
CUpdateConfigFrom(partials) ==
    \E newConfig \in partials :
        /\ config' = updateConfig(config, newConfig)
        /\ cfgPrev' = config
        /\ cfgPartial' = newConfig
        /\ UNCHANGED <<qvars, agentToken, rvars, hvars, lvars, mvars, fvars, uvars>>

CUpdateConfig == CUpdateConfigFrom(Partials)

CNext == CUpdateConfig

SpecConfig == SpecQueueInit /\ [][CNext]_vars

(***************************************************************************)
(* C22: updateConfig(partial) is a shallow merge, the last write winning   *)
(* per field: every field of partial has the new value afterwards, every   *)
(* other field keeps its value, no field is lost or invented, and applying *)
(* the same partial again changes nothing.                                 *)
(***************************************************************************)
C22_ShallowMerge ==
    /\ \A f \in DOMAIN cfgPartial : config[f] = cfgPartial[f]
    /\ \A f \in (DOMAIN cfgPrev) \ (DOMAIN cfgPartial) : config[f] = cfgPrev[f]
    /\ DOMAIN config = (DOMAIN cfgPrev) \cup (DOMAIN cfgPartial)
    /\ updateConfig(config, cfgPartial) = config

\* a partial with one known field, after an earlier update had set another:
\* the earlier value and a default are both kept
C22_Witness ==
    /\ DOMAIN cfgPartial = {"pollInterval"}
    /\ config.pollInterval = 0
    /\ cfgPrev.pollInterval = 5000
    /\ config.sendInterval = 0
    /\ config.batchSize = 10

(***************************************************************************)
(* Health checks of an agent in an arbitrary token state, while tasks are  *)
(* queued and the configuration of the master arrives                      *)
(***************************************************************************)
HUpdateConfig == CUpdateConfigFrom(PollConfigs)

HNext == HealthCall \/ HealthResponse \/ QAddSameTasks \/ HUpdateConfig

SpecHealth == SpecReportInit /\ [][HNext]_vars

(***************************************************************************)
(* C23: a health check changes nothing of the agent but the token on a     *)
(* 401.  Whatever its fetch gets (OK, a non-OK status, an exception), the  *)
(* queue and the configuration stay as they are, the token changes only on *)
(* status 401 and then becomes empty, and the call returns true or false   *)
(* to its caller.  Without a token it returns false and changes nothing.   *)
(***************************************************************************)
C23_HealthFrame ==
    [][(hpc' # hpc \/ hRet' # hRet \/ hLast' # hLast) =>
          /\ currentQueue' = currentQueue
          /\ config' = config
          /\ (agentToken' # agentToken => hLast' = "401" /\ agentToken' = "")
          /\ (hLast' = "401" => agentToken' = "")
          /\ (hpc' = "idle" => hRet' \in {"TRUE", "FALSE"})
          /\ (hRet' = "TRUE" <=> hLast' = "ok")]_vars

\* a 401 has cleared the token while tasks were queued and the configuration
\* of the master was in force
C23_Witness ==
    /\ hLast = "401"
    /\ hRet = "FALSE"
    /\ hpc = "idle"
    /\ agentToken = ""
    /\ Len(currentQueue) = 2
    /\ config = MasterConfig

(***************************************************************************)
(* The agent with its heartbeat: health checks run beside the loop, the    *)
(* master answers polls with short batches                                 *)
(***************************************************************************)
ApiPoll == PollResponseFrom(UpdateBatches)

\* a tick of the heartbeat timer, or the fetch of a health check settles
HealthStep == exited = "no" /\ (HealthCall \/ HealthResponse)

ANext ==
    \/ ApiPoll \/ MainOther \/ DrainSleepWake
    \/ ShutdownSignal \/ ShutdownExit
    \/ HealthStep

SpecApi == Init /\ [][ANext]_vars

(***************************************************************************)
(* C24: a network fault never crashes the loop.  register, poll, report    *)
(* and sendHealthCheck throw nothing on a non-OK status or a network       *)
(* exception: register returns false (the loop sleeps and tries again),    *)
(* poll returns no tasks, report retries and returns false when its last   *)
(* attempt failed, sendHealthCheck returns false; main() does not end and  *)
(* its catch is not entered.                                               *)
(***************************************************************************)
C24_FaultsNeverThrow ==
    /\ pc \notin {"crashed", "errSleep"}
    /\ apiLast.ret # "threw" /\ rRet # "threw" /\ hRet # "threw"
    /\ (apiLast.fn = "register" /\ apiLast.resp # "ok" => apiLast.ret = "FALSE")
    /\ (apiLast.fn = "register" /\ apiLast.resp # "ok" =>
          pc \in {"regSleep", "regLoop", "registering"})
    /\ (apiLast.fn = "poll" /\ apiLast.resp # "ok" =>
          apiLast.ret = "tasks" /\ apiLast.n = 0 /\ tasks = << >>)
    /\ (rLast \notin {"none", "ok"} =>
          \/ rpc = "sleep" /\ attempt < MAX_RETRIES
          \/ rpc = "done" /\ rRet = "FALSE" /\ attempt = MAX_RETRIES)
    /\ (hLast \notin {"none", "ok"} => hRet = "FALSE" /\ hpc = "idle")

\* a registration had failed before it succeeded; now the last attempt of a
\* report() got an exception and a health check got a 500
C24_Witness ==
    /\ pc = "reporting"
    /\ rpc = "done"
    /\ rLast = "exception"
    /\ rRet = "FALSE"
    /\ hLast = "500"
    /\ hRet = "FALSE"
    /\ apiLast.fn = "poll"
    /\ exited = "no"

(***************************************************************************)
(* C25: a task without subject or body is an error of that task only.      *)
(* sendEmail returns a failed TaskResult for it ("Missing pre-generated    *)
(* email content") without reaching sendMail, the catch of the loop is not *)
(* entered, and the other tasks of the batch are executed and reported     *)
(* with it.                                                                *)
(***************************************************************************)
C25_MissingContentIsPerTask ==
    /\ pc # "errSleep"
    /\ (tasks # << >> =>
          sends = Cardinality({i \in 1..(Len(results) + (IF pc = "sending" THEN 1 ELSE 0)) :
                                  tasks[i].content}))
    /\ \A i \in 1..Len(results) :
          ~tasks[i].content =>
              results[i] = [queueId |-> tasks[i].queueId, success |-> FALSE,
                            errorMessage |-> "Missing pre-generated email content"]
    /\ (mode = "batch" /\ pc \in {"reporting", "pollSleep"} /\ tasks # << >> /\ ~shuttingDown =>
          /\ Len(results) = Len(tasks)
          /\ reported = results)

\* the first task of a batch of three had no content; the two behind it were
\* sent, and the three results are being reported
C25_Witness ==
    /\ mode = "batch"
    /\ pc = "reporting"
    /\ ~shuttingDown
    /\ Len(tasks) = 3
    /\ ~tasks[1].content /\ tasks[2].content /\ tasks[3].content
    /\ Len(rResults) = 3
    /\ ~rResults[1].success /\ rResults[2].success /\ rResults[3].success
    /\ sends = 2
    /\ faults = 1

(***************************************************************************)
(* C26: the happy path.  The agent is registered, a poll returns three     *)
(* tasks and every send succeeds: report() is called once, with the three  *)
(* successful results in the order of the tasks, and the queue is empty    *)
(* when the batch is reported and when the iteration ends.                 *)
(***************************************************************************)
C26_HappyPath ==
    (mode = "batch" /\ Len(tasks) = 3 /\ faults = 0 /\ ~shuttingDown) =>
        /\ ~Falsy(agentToken)
        /\ (pc \in {"forTop", "sending", "sendSleep"} => batchReports = 0)
        /\ (pc \in {"reporting", "pollSleep"} =>
              /\ batchReports = 1
              /\ reported = [i \in 1..3 |-> [queueId |-> tasks[i].queueId,
                                              success |-> TRUE,
                                              errorMessage |-> ""]]
              /\ getQueueSize(currentQueue) = 0)
        /\ (pc = "reporting" =>
              /\ rResults = reported
              /\ \A i \in 1..Len(rSent) : rSent[i].results = reported)
        /\ pc \in {"forTop", "sending", "sendSleep", "reporting", "pollSleep"}

\* the single report() of three sent tasks has returned true at its first
\* attempt; the loop sleeps the poll interval with an empty queue
C26_Witness ==
    /\ pc = "pollSleep"
    /\ mode = "batch"
    /\ ~shuttingDown
    /\ Len(tasks) = 3
    /\ tasks[1].queueId # tasks[2].queueId
    /\ faults = 0
    /\ sends = 3
    /\ batchReports = 1
    /\ Len(reported) = 3
    /\ \A i \in 1..3 : reported[i].success /\ reported[i].queueId = tasks[i].queueId
    /\ rRet = "TRUE"
    /\ getQueueSize(currentQueue) = 0

(***************************************************************************)
(* C27: a partial batch failure.  A poll returns two tasks and the send of *)
(* the first fails: the second is still executed, report() is called once  *)
(* with both results, the failure carrying a non-empty error message, and  *)
(* the queue is empty afterwards.                                          *)
(***************************************************************************)
C27_PartialBatchFailure ==
    (/\ mode = "batch" /\ Len(tasks) = 2 /\ ~shuttingDown
     /\ faults = 1
     /\ (Len(results) >= 1 => ~results[1].success)) =>
        /\ pc # "errSleep"
        /\ Len(results) >= 1
        /\ results[1].queueId = tasks[1].queueId
        /\ results[1].errorMessage # ""
        /\ (Len(results) = 1 =>
              /\ pc \in {"sendSleep", "forTop", "sending"}
              /\ batchReports = 0
              /\ currentQueue = <<tasks[2]>>)
        /\ (Len(results) = 2 =>
              /\ results[2] = [queueId |-> tasks[2].queueId, success |-> TRUE,
                               errorMessage |-> ""]
              /\ pc \in {"reporting", "pollSleep"}
              /\ batchReports = 1
              /\ reported = results
              /\ getQueueSize(currentQueue) = 0)

\* the transport rejected the first task and sent the second; both results
\* went to one report(), and the loop sleeps the poll interval
C27_Witness ==
    /\ pc = "pollSleep"
    /\ mode = "batch"
    /\ ~shuttingDown
    /\ Len(tasks) = 2
    /\ tasks[1].content
    /\ batchReports = 1
    /\ Len(reported) = 2
    /\ reported[1].errorMessage = "Invalid login"
    /\ reported[2].success
    /\ sends = 2
    /\ getQueueSize(currentQueue) = 0

(***************************************************************************)
(* C28: with a token and a non-empty batch, report() stops at its first    *)
(* successful attempt.  When attempts 1..k-1 failed and attempt k <= 5     *)
(* succeeds it has made exactly k attempts, each with the same token and   *)
(* the same batch, has slept 30 s before each retry, returns true, and     *)
(* makes no attempt after the success.                                     *)
(***************************************************************************)
C28_StopsAtFirstSuccess ==
    /\ (rLast = "ok" => rpc = "done" /\ rRet = "TRUE")
    /\ (rpc = "done" /\ rRet = "TRUE" /\ rSent # << >> =>
          /\ rLast = "ok"
          /\ Len(rSent) = rFailures + 1
          /\ attempt = Len(rSent)
          /\ attempt <= 5
          /\ rDelays = [i \in 1..rFailures |-> 30000]
          /\ \A i \in 1..Len(rSent) : rSent[i] = [token |-> rTok, results |-> rResults]
          /\ ~Falsy(rTok)
          /\ rResults # << >>)

\* the fifth attempt has succeeded after four failures
C28_Witness ==
    /\ rpc = "done"
    /\ rRet = "TRUE"
    /\ rLast = "ok"
    /\ rFailures = 4
    /\ Len(rSent) = 5
    /\ rDelays = <<30000, 30000, 30000, 30000>>
    /\ Len(rResults) = 2

C30_WaitTerminates ==
    /\ [](waitCount <= 360 /\ (upc = "waitSleep" => waitCount < 360))
    /\ [](waitAborted => exited = "no")
    /\ [][(upc = "waitSleep" /\ (upc' # upc \/ waitCount' # waitCount)) =>
              \/ /\ upc' = "waitSleep"
                 /\ waitCount' = waitCount + 1
                 /\ getQueueSize(currentQueue) > 0
              \/ /\ upc' = "script"
                 /\ getQueueSize(currentQueue) = 0
              \/ /\ upc' = "idle"
                 /\ ~isChecking'
                 /\ exited' = "no"
                 /\ (getQueueSize(currentQueue) > 0 => waitCount = 359)
                 /\ (waitAborted' <=> getQueueSize(currentQueue) > 0)]_vars
    /\ [][(upc = "waitSleep" /\ waitCount = 359 /\ getQueueSize(currentQueue) > 0
            /\ upc' # upc) =>
              upc' = "idle" /\ exited' = "no" /\ ~isChecking']_vars
    /\ (upc = "waitSleep") ~> (upc # "waitSleep")

\* the 360th re-read has found the queue non-empty: the check has returned,
\* polling stays stopped, the process runs on with its task queued
C30_Witness ==
    /\ waitAborted
    /\ upc = "idle"
    /\ ~isChecking
    /\ ~isPolling
    /\ exited = "no"
    /\ getQueueSize(currentQueue) > 0

(***************************************************************************)
(* api-client.ts: register(), poll() and pollImap() called in any order,   *)
(* beside report() and the health check.  A response is told apart by its  *)
(* status and by whether its body is JSON: "401BadBody" is a 401 whose     *)
(* body response.json() cannot parse.                                      *)
(***************************************************************************)
AuthResponses == Responses \cup {"401BadBody"}

\* response.status; "exception" is a fetch that gave no response
HttpStatus(resp) == IF resp = "401BadBody" THEN "401" ELSE resp

\* await response.json() returns
BodyParses(resp) == resp \in {"ok", "401", "500"}

\* register(): setAgentToken(data.token) after an OK response only
RegisterTokenAfter(resp, token, serverToken) == IF resp = "ok" THEN serverToken ELSE token

\* register(): updateConfig(data.config) after an OK response only
RegisterConfigAfter(resp, c) == IF resp = "ok" THEN updateConfig(c, MasterConfig) ELSE c

\* poll(): in the !response.ok branch the body is parsed first, then the
\* status is tested; a body that does not parse throws into the catch
PollTokenAfter(resp, token) ==
    IF resp \in {"exception", "ok"} THEN token
    ELSE IF ~BodyParses(resp) THEN token
    ELSE IF HttpStatus(resp) = "401" THEN ""
    ELSE token

\* pollImap(): in the !response.ok branch the status is tested, no body is read
PollImapTokenAfter(resp, token) ==
    IF resp \in {"exception", "ok"} THEN token
    ELSE IF HttpStatus(resp) = "401" THEN ""
    ELSE token

\* what a call of register(), poll() or pollImap() leaves alone
ApiFrame ==
    UNCHANGED <<qvars, rvars, hvars, lvars, fvars, uvars, cfgPrev, cfgPartial, pc, tasks, idx,
                results, mode, isProcessing, batchReports, reported, faults, sends,
                polledUnregistered, drainLog>>

ARegister ==
    /\ \E resp \in AuthResponses, serverToken \in ServerTokens :
        /\ agentToken' = RegisterTokenAfter(resp, agentToken, serverToken)
        /\ config' = RegisterConfigAfter(resp, config)
        /\ apiLast' = [fn |-> "register", resp |-> resp,
                       ret |-> IF resp = "ok" THEN "TRUE" ELSE "FALSE", n |-> 0]
    /\ ApiFrame

APoll ==
    /\ IF Falsy(agentToken)
       THEN /\ apiLast' = [fn |-> "poll", resp |-> "none", ret |-> "tasks", n |-> 0]
            /\ UNCHANGED <<agentToken, config>>
       ELSE \E resp \in AuthResponses, cfg \in PollConfigs :
            /\ agentToken' = PollTokenAfter(resp, agentToken)
            /\ config' = IF resp = "ok" THEN updateConfig(config, cfg) ELSE config
            /\ apiLast' = [fn |-> "poll", resp |-> resp, ret |-> "tasks", n |-> 0]
    /\ ApiFrame

APollImap ==
    /\ IF Falsy(agentToken)
       THEN /\ apiLast' = [fn |-> "pollImap", resp |-> "none", ret |-> "tasks", n |-> 0]
            /\ UNCHANGED agentToken
       ELSE \E resp \in AuthResponses :
            /\ agentToken' = PollImapTokenAfter(resp, agentToken)
            /\ apiLast' = [fn |-> "pollImap", resp |-> resp, ret |-> "tasks", n |-> 0]
    /\ UNCHANGED config
    /\ ApiFrame

AuthNext == ARegister \/ APoll \/ APollImap \/ RNext

SpecAuth == SpecReportInit /\ [][AuthNext]_vars

(***************************************************************************)
(* api-client.ts: reportImap(), called with arbitrary results in an        *)
(* arbitrary token state.  Its locals are those of report() and are kept   *)
(* in the same variables; apiLast.n counts the attempts of the call that   *)
(* ended in the catch.                                                     *)
(***************************************************************************)
\* a loop that allows one attempt more
ImapLoopGoesOnOneMore(n) == n <= MAX_RETRIES + 1

\* for (let attempt = 1; attempt <= MAX_RETRIES; attempt++)
ImapLoopGoesOn(n) == n <= MAX_RETRIES

\* attempt++ and the test of the for loop: the next fetch, or the return false
\* behind the loop
ImapNextAttempt ==
    /\ attempt' = attempt + 1
    /\ IF ImapLoopGoesOn(attempt + 1)
       THEN /\ rpc' = "fetch"
            /\ rSent' = Append(rSent, [token |-> rTok, results |-> rResults])
            /\ UNCHANGED rRet
       ELSE /\ rpc' = "done"
            /\ rRet' = "FALSE"
            /\ UNCHANGED rSent

ImapFrame ==
    UNCHANGED <<qvars, agentToken, hvars, lvars, fvars, uvars, cvars, pc, tasks, idx, results, mode,
                isProcessing, batchReports, reported, faults, sends, polledUnregistered,
                drainLog>>

\* reportImap(results) up to its first await: the guard, then the first fetch
ImapCall ==
    /\ rpc = "idle"
    /\ \E rs \in SeqsUpTo(SampleResults, MaxBatch) :
        /\ rResults' = rs
        /\ rTok' = agentToken
        /\ rDelays' = << >>
        /\ rFailures' = 0
        /\ rLast' = "none"
        /\ apiLast' = [fn |-> "reportImap", resp |-> "none", ret |-> "none", n |-> 0]
        /\ IF Falsy(agentToken) \/ Len(rs) = 0
           THEN /\ rpc' = "done"
                /\ rRet' = "TRUE"
                /\ attempt' = 0
                /\ rSent' = << >>
           ELSE /\ rpc' = "fetch"
                /\ rRet' = "none"
                /\ attempt' = 1
                /\ rSent' = <<[token |-> agentToken, results |-> rs]>>
    /\ ImapFrame

\* the fetch of an attempt settles
ImapResponse ==
    /\ rpc = "fetch"
    /\ \E resp \in Responses :
        /\ rLast' = resp
        /\ IF resp = "ok"
           THEN /\ rpc' = "done"
                /\ rRet' = "TRUE"
                /\ UNCHANGED <<attempt, rSent, rFailures, rDelays, apiLast>>
           ELSE IF resp # "exception"
           THEN /\ rFailures' = rFailures + 1
                /\ IF attempt < MAX_RETRIES
                   THEN /\ rpc' = "sleep"
                        /\ rDelays' = Append(rDelays, RETRY_DELAY)
                        /\ UNCHANGED rRet
                   ELSE /\ rpc' = "done"
                        /\ rRet' = "FALSE"
                        /\ UNCHANGED rDelays
                /\ UNCHANGED <<attempt, rSent, apiLast>>
           ELSE /\ rFailures' = rFailures + 1
                /\ apiLast' = [apiLast EXCEPT !.n = @ + 1]
                /\ IF attempt < MAX_RETRIES
                   THEN /\ rpc' = "sleep"
                        /\ rDelays' = Append(rDelays, RETRY_DELAY)
                        /\ UNCHANGED <<attempt, rSent, rRet>>
                   ELSE /\ ImapNextAttempt
                        /\ UNCHANGED rDelays
    /\ UNCHANGED <<rTok, rResults>>
    /\ ImapFrame

\* sleep(RETRY_DELAY) ends: the next turn of the loop
ImapWake ==
    /\ rpc = "sleep"
    /\ ImapNextAttempt
    /\ rLast' = "none"
    /\ UNCHANGED <<rTok, rResults, rDelays, rFailures, apiLast>>
    /\ ImapFrame

\* reportImap() has returned to its caller
ImapReturn ==
    /\ ReportLeave
    /\ apiLast' = NoApi
    /\ ImapFrame

INext == ImapCall \/ ImapResponse \/ ImapWake \/ ImapReturn

SpecImap == SpecReportInit /\ [][INext]_vars

(***************************************************************************)
(* log-uploader.ts: LogUploader, with one log file.  The logger appends    *)
(* whole lines, so new content always holds a line that is not blank.  The *)
(* runs of uploadLogs() are started by start() and by its 30 s interval    *)
(* timer, whether or not an earlier run has returned.                      *)
(***************************************************************************)
MaxLogSize == 3
MaxUploads == 3

\* result.fileSize of a success response: absent (0), or the size the
\* master has after the append
ServerFileSizes(off, len) == {0, off + len}

\* const newOffset = result.fileSize || (currentOffset + contentLength)
NewOffset(fileSize, off, len) == IF fileSize # 0 THEN fileSize ELSE off + len

UploaderFrame ==
    UNCHANGED <<qvars, agentToken, rvars, hvars, mvars, fvars, uvars, cvars>>

\* setToken(token)
LSetToken ==
    /\ logToken' = TRUE
    /\ UNCHANGED <<logSize, savedOffset, runs, okUploads>>
    /\ UploaderFrame

\* the logger appends a line to the file
LogAppend ==
    /\ logSize < MaxLogSize
    /\ logSize' = logSize + 1
    /\ UNCHANGED <<logToken, savedOffset, runs, okUploads>>
    /\ UploaderFrame

\* start() or a tick of the interval: uploadLogs() up to await uploadToMaster
UploadLogs(r) ==
    /\ runs[r].pc = "idle"
    /\ \A q \in 1..(r - 1) : runs[q].pc # "idle"
    /\ IF ~logToken \/ logSize <= savedOffset
       THEN UNCHANGED runs
       ELSE /\ Len(okUploads) < MaxUploads
            /\ runs' = [runs EXCEPT ![r] = [pc |-> "upload", off |-> savedOffset,
                                             len |-> logSize - savedOffset]]
    /\ UNCHANGED <<logToken, logSize, savedOffset, okUploads>>
    /\ UploaderFrame

\* uploadToMaster() settles; the rest of uploadLogs(): the new offset in the
\* state object, saveState(state) when lines were uploaded
UploadSettles(r) ==
    /\ runs[r].pc = "upload"
    /\ \E success \in BOOLEAN, fileSize \in ServerFileSizes(runs[r].off, runs[r].len) :
        IF success
        THEN /\ okUploads' = Append(okUploads, <<runs[r].off, runs[r].len>>)
             /\ savedOffset' = NewOffset(fileSize, runs[r].off, runs[r].len)
        ELSE UNCHANGED <<okUploads, savedOffset>>
    /\ runs' = [runs EXCEPT ![r] = NoRun]
    /\ UNCHANGED <<logToken, logSize>>
    /\ UploaderFrame

UpNext ==
    \/ LSetToken
    \/ LogAppend
    \/ \E r \in 1..MaxRuns : UploadLogs(r)
    \/ \E r \in 1..MaxRuns : UploadSettles(r)

SpecUpload == SpecQueueInit /\ [][UpNext]_vars

C32_OneCheckAtATime ==
    /\ [](isChecking <=> upc # "idle")
    /\ [][(upc' = "gitCheck" /\ upc # "gitCheck") => (~isChecking /\ upc = "idle")]_vars
    /\ [][(skippedChecks' /\ ~skippedChecks) =>
              /\ isChecking
              /\ UNCHANGED <<upc, isChecking, queueSize, waitCount, waitAborted,
                             isPolling, exited, qvars>>]_vars
    /\ [][(upc # "idle" /\ upc' = "idle") => ~isChecking']_vars

\* a call was skipped during a check, the update of that check was aborted
\* at the wait bound, and the checker is idle with its flag cleared
C32_Witness ==
    /\ skippedChecks
    /\ waitAborted
    /\ upc = "idle"
    /\ ~isChecking

(***************************************************************************)
(* C33: report(results) called with a non-empty list while the token is    *)
(* null or empty returns true without a network attempt.  When a 401 on a  *)
(* health check clears the token between the poll and the end of the       *)
(* batch, the results of that batch are never sent and the loop goes on as *)
(* after a successful report.                                              *)
(***************************************************************************)
C33_NoTokenReportDropsResults ==
    /\ []((rpc # "idle" /\ Falsy(rTok)) => (rpc = "done" /\ rRet = "TRUE"))
    /\ []((rpc = "done" /\ Falsy(rTok)) => (rSent = << >> /\ attempt = 0))
    /\ [][(pc = "reporting" /\ pc' # "reporting" /\ Falsy(rTok))
              => /\ pc' = IF mode = "drain" THEN "drainSleep" ELSE "pollSleep"
                 /\ rRet' = "TRUE"]_vars

\* a batch of two tasks was polled and sent, a health check got a 401 in
\* between, and report() has returned true for the two results, nothing sent
C33_Witness ==
    /\ pc = "reporting"
    /\ mode = "batch"
    /\ rpc = "done"
    /\ agentToken = ""
    /\ rTok = ""
    /\ Len(rResults) = 2
    /\ reported = rResults
    /\ rRet = "TRUE"
    /\ rSent = << >>

(***************************************************************************)
(* C34: report() reads the token once, when it is called, and every one of *)
(* its attempts sends that token with the results it was called with.  A   *)
(* change of the stored token during the call (a 401 on a health check, a  *)
(* setAgentToken of a registration) changes nothing of the call: the       *)
(* retry sleep is followed by the next attempt.                            *)
(***************************************************************************)
C34_TokenReadOnce ==
    /\ [](\A i \in 1..Len(rSent) : rSent[i] = [token |-> rTok, results |-> rResults])
    /\ [][(rpc = "idle" /\ rpc' # "idle") => rTok' = agentToken]_vars
    /\ [][(rpc # "idle" /\ rpc' # "idle") => (rTok' = rTok /\ rResults' = rResults)]_vars
    /\ [][agentToken' # agentToken => UNCHANGED rvars]_vars
    /\ [][(rpc = "sleep" /\ rpc' # "sleep") =>
              /\ rpc' = "fetch"
              /\ attempt' = attempt + 1
              /\ Len(rSent') = attempt + 1]_vars

\* report() was called with tokA; a health check got a 401 and a registration
\* stored tokB during its sleeps; all five attempts were made with tokA
C34_Witness ==
    /\ rpc = "done"
    /\ rRet = "FALSE"
    /\ Len(rSent) = 5
    /\ rTok = "tokA"
    /\ \A i \in 1..5 : rSent[i].token = "tokA"
    /\ agentToken = "tokB"
    /\ hLast = "401"

(***************************************************************************)
(* C35: the agent token changes in two ways only.  A register() that got   *)
(* an OK response stores the token of the server; a 401 response to        *)
(* poll(), pollImap() or sendHealthCheck() stores the empty token.  A      *)
(* failed register(), a non-401 error status, a fetch that gave no         *)
(* response and every step of report() leave the token as it is, and a     *)
(* failed register() leaves the config as it is.                           *)
(***************************************************************************)
C35_TokenChangesOnlyTwoWays ==
    [][LET called(fn) == rvars' = rvars /\ hvars' = hvars /\ apiLast'.fn = fn
           resp == apiLast'.resp
       IN  /\ agentToken' # agentToken =>
                \/ called("register") /\ resp = "ok"
                \/ (called("poll") \/ called("pollImap"))
                       /\ HttpStatus(resp) = "401" /\ agentToken' = ""
                \/ hpc = "fetch" /\ hLast' = "401" /\ agentToken' = ""
           /\ (called("register") /\ resp = "ok") => agentToken' \in ServerTokens
           /\ ((called("poll") \/ called("pollImap")) /\ HttpStatus(resp) = "401")
                  => agentToken' = ""
           /\ (hpc = "fetch" /\ hLast' = "401") => agentToken' = ""
           /\ (called("register") /\ resp # "ok") => UNCHANGED <<agentToken, config>>
           /\ ((called("poll") \/ called("pollImap")) /\ HttpStatus(resp) # "401")
                  => UNCHANGED agentToken
           /\ (hpc = "fetch" /\ hpc' = "idle" /\ hLast' # "401") => UNCHANGED agentToken
           /\ rvars' # rvars => UNCHANGED agentToken]_vars

(***************************************************************************)
(* C36: reportImap has the bounded retry of report.  With a token and a    *)
(* non-empty list it makes at least one and at most 5 attempts, returns    *)
(* true at its first successful attempt, and returns false after exactly 5 *)
(* attempts when all of them fail, by a non-OK status, by an exception or  *)
(* by a mix of both.                                                       *)
(***************************************************************************)
C36_ImapRetryBound ==
    /\ [](Len(rSent) <= MAX_RETRIES /\ rFailures <= Len(rSent))
    /\ []((rpc = "done" /\ ~Falsy(rTok) /\ Len(rResults) > 0) =>
              /\ Len(rSent) >= 1
              /\ rRet \in {"TRUE", "FALSE"}
              /\ rRet = "TRUE" => (rLast = "ok" /\ rFailures = Len(rSent) - 1)
              /\ rRet = "FALSE" => (rFailures = MAX_RETRIES /\ Len(rSent) = MAX_RETRIES)
              /\ rFailures = Len(rSent) => rRet = "FALSE"
              /\ Len(rDelays) = rFailures - (IF rRet = "FALSE" THEN 1 ELSE 0))
    /\ [][(rpc = "fetch" /\ rLast' = "ok") => (rpc' = "done" /\ rRet' = "TRUE")]_vars
    /\ [][(rpc = "fetch" /\ rLast' \notin {"ok", "none"} /\ Len(rSent) < MAX_RETRIES)
              => rpc' = "sleep"]_vars

\* five attempts failed, two of them by an exception, the last one among
\* them: reportImap returned false
C36_Witness ==
    /\ rpc = "done"
    /\ rRet = "FALSE"
    /\ apiLast.fn = "reportImap"
    /\ Len(rSent) = 5
    /\ rFailures = 5
    /\ apiLast.n = 2
    /\ rLast = "exception"

(***************************************************************************)
(* C37: the log uploader never uploads the same byte range of the log file *)
(* twice.  Every upload starts at the offset stored for the file, the      *)
(* stored offset changes only when an upload returned success, and no two  *)
(* successful uploads have the same offset and length, also when a run of  *)
(* uploadLogs is still waiting for its upload at the next tick.            *)
(***************************************************************************)
C37_NoRangeUploadedTwice ==
    /\ [][\A r \in 1..MaxRuns :
             (runs[r].pc = "idle" /\ runs'[r].pc = "upload") => runs'[r].off = savedOffset]_vars
    /\ [][savedOffset' # savedOffset => Len(okUploads') = Len(okUploads) + 1]_vars
    /\ [](\A i, j \in 1..Len(okUploads) : i # j => okUploads[i] # okUploads[j])

(***************************************************************************)
(* C38: the inter-send delay comes between the tasks of a batch only.  The *)
(* loop starts a send-interval sleep only right after the result of a task *)
(* that is not the last of the batch, the sleep is followed by the next    *)
(* task, and nothing else moves the loop to the next task; so a batch of n *)
(* tasks that is not cut short by a termination signal is reported after   *)
(* n - 1 sleeps, in the step that produced the result of the last task.    *)
(***************************************************************************)
C38_SleepBetweenTasksOnly ==
    /\ [][(pc' = "sendSleep" /\ pc # "sendSleep") =>
              /\ pc \in {"forTop", "sending"}
              /\ idx < Len(tasks)
              /\ Len(results') = idx
              /\ UNCHANGED <<idx, rvars>>]_vars
    /\ [][(pc = "sendSleep" /\ pc' # "sendSleep") => (pc' = "forTop" /\ idx' = idx + 1)]_vars
    /\ [][(idx >= 1 /\ idx' > idx) => pc = "sendSleep"]_vars
    /\ [][(mode = "batch" /\ ~shuttingDown /\ pc' = "reporting" /\ pc # "reporting") =>
              /\ pc \in {"forTop", "sending"}
              /\ idx = Len(tasks)
              /\ Len(results') = Len(tasks)
              /\ rResults' = results']_vars

\* the third task of a batch of three is being sent, after two sleeps, two
\* results and no report
C38_Witness ==
    /\ pc = "sending"
    /\ mode = "batch"
    /\ ~shuttingDown
    /\ Len(tasks) = 3
    /\ idx = 3
    /\ Len(results) = 2
    /\ batchReports = 0

(***************************************************************************)
(* C39: removeTaskByIndex(index) with an index below 0 or not below the    *)
(* length of the queue leaves the queue as it is, contents, order and      *)
(* size.  With an index inside the queue it removes the task at that       *)
(* position and nothing else: the tasks before it stay where they are and  *)
(* the tasks behind it move up by one, in their order.                     *)
(***************************************************************************)
C39_RemoveByIndexFrame ==
    [][(ops' = ops + 1 /\ fifo'.last = "removeTaskByIndex") =>
          LET i  == loc'.index
              q  == currentQueue
              q2 == currentQueue'
          IN  IF i < 0 \/ i >= Len(q)
              THEN q2 = q /\ getQueueSize(q2) = getQueueSize(q)
              ELSE /\ getQueueSize(q2) = getQueueSize(q) - 1
                   /\ \A k \in 1..i : q2[k] = q[k]
                   /\ \A k \in (i + 1)..(Len(q) - 1) : q2[k] = q[k + 1]]_vars

\* a queue of three tasks lost the one in the middle, and the two that stay
\* differ, so that their order shows
C39_Witness ==
    /\ fifo.last = "removeTaskByIndex"
    /\ loc.index = 1
    /\ loc.removed # NoTask
    /\ enqueued = 3
    /\ removed = 1
    /\ Len(currentQueue) = 2
    /\ currentQueue[1] # currentQueue[2]

\* an index outside the queue was given to a queue that holds tasks
C39_WitnessOutside ==
    /\ fifo.last = "removeTaskByIndex"
    /\ loc.index \in {-1, MaxQueue}
    /\ loc.removed = NoTask
    /\ Len(currentQueue) = MaxQueue

====
